---- MODULE Spec2Model ----
(***************************************************************************)
(* Model of the docgen API (src/main.py): the ephemeral file lifecycle.    *)
(*                                                                         *)
(* State: the wall clock, the content of OUTPUT_DIR, the in-memory         *)
(* FILE_REGISTRY and, for every worker thread of the server, the request   *)
(* it is serving, its position in the handler and the handler's locals.    *)
(* FastAPI runs the synchronous handlers create_document and               *)
(* download_document on a thread pool, so handlers interleave between      *)
(* system calls; every action below is one such step of one handler.       *)
(*                                                                         *)
(* Strings are sequences of tokens: single characters, and the extensions  *)
(* ".docx" / ".txt" (one token each).                                      *)
(*                                                                         *)
(* Spec is the server with two workers, a running clock and restarts.      *)
(* SpecSeq is one worker serving downloads one after the other from any    *)
(* content of OUTPUT_DIR and FILE_REGISTRY. SpecDoc is one create request  *)
(* with any title or body, for the naming and the rendering of documents.  *)
(***************************************************************************)
EXTENDS Integers, Sequences, FiniteSets, TLC

\* ---------------------------------------------------------------- bounds
\* Largest clock value (time.time() is cut to small integers).
MaxTime == 2
\* Number of requests the server accepts in one run of the model.
MaxRequests == 3
\* Number of create requests that get as far as minting an identifier.
MaxCreates == 2
\* DOWNLOAD_TTL_SECONDS, scaled down from its default of 86400 seconds.
DOWNLOAD_TTL_SECONDS == 1
\* The length sanitize_filename cuts a name to, scaled down from 120.
NameCap == 3
\* The longest title, in characters, and the longest body, in lines, of the
\* create requests whose documents are examined.
MaxTitle == 4
MaxLines == 3

\* Worker threads of the server.
Procs == {"w1", "w2"}

\* ------------------------------------------------------------ identifiers
\* uuid.uuid4().hex, cut to two characters of the hexadecimal alphabet. The
\* pool holds one identifier per create the model runs, and the one below.
HexChars == <<"a", "b", "c">>
IdOf(i) == <<HexChars[(i \div Len(HexChars)) + 1], HexChars[(i % Len(HexChars)) + 1]>>
Ids == {IdOf(i) : i \in 0..MaxCreates}
\* The identifier carried by the files that were in OUTPUT_DIR at startup.
LegacyId == IdOf(0)

\* A file content: the bytes of a saved document.
NoBytes == [kind |-> "none", doc |-> <<>>]
\* The title and the body_markdown of the create requests of the server's
\* runs: strings are sequences of characters.
Titles == {<<"c", "v">>}
Bodies == {<<"c", "v">>}

\* Files that may lie in OUTPUT_DIR when the process starts: two whose names
\* follow the older "<title>_<id>.docx" convention and one that is no .docx.
LegacyNames ==
    { <<"x", "_">> \o LegacyId \o <<".docx">>,
      <<"y", "_">> \o LegacyId \o <<".docx">>,
      <<"n", ".txt">> }

\* --------------------------------------------------------------- auth
API_BEARER_TOKEN == <<"tok">>

NoHeader == [present |-> FALSE, text |-> <<>>]
Headers ==
    { NoHeader,
      [present |-> TRUE, text |-> <<>>],
      [present |-> TRUE, text |-> <<"Bearer", " ", "tok">>],
      [present |-> TRUE, text |-> <<" ", "Bearer", " ", "tok", " ">>],
      [present |-> TRUE, text |-> <<"Bearer", " ", "bad">>] }

\* str.isspace() of one character.
isspace(c) == c \in {" ", "\t", "\n", "\r"}

RECURSIVE lstrip(_)
lstrip(s) == IF s # <<>> /\ isspace(Head(s)) THEN lstrip(Tail(s)) ELSE s

RECURSIVE rstrip(_)
rstrip(s) ==
    IF s # <<>> /\ isspace(s[Len(s)]) THEN rstrip(SubSeq(s, 1, Len(s) - 1)) ELSE s

strip(s) == rstrip(lstrip(s))

\* verify_bearer_token: 0 when the header is accepted, else the HTTP status.
verify_bearer_token(authorization) ==
    IF ~authorization.present \/ authorization.text = <<>>
    THEN 401
    ELSE IF strip(authorization.text) # <<"Bearer", " ">> \o API_BEARER_TOKEN
         THEN 401
         ELSE 0

\* ------------------------------------------------------------ file names
\* fn.endswith(".docx")
endswith_docx(fn) == fn # <<>> /\ fn[Len(fn)] = ".docx"

\* An alternative: the path keeps only the head of the identifier.
file_path_truncated(file_id) == SubSeq(file_id, 1, Len(file_id) - 1) \o <<".docx">>

\* build_docx: os.path.join(OUTPUT_DIR, f"{file_id}.docx")
file_path_of(file_id) == file_id \o <<".docx">>

\* resolve_file_path: os.path.join(OUTPUT_DIR, f"{file_id}.docx")
deterministic(file_id) == file_id \o <<".docx">>

\* download_document: the name matches the pattern f"*_{file_id}.docx"
\* (glob's "*" matches any run of characters, the rest is literal).
glob_match(fn, file_id) ==
    LET suffix == <<"_">> \o file_id \o <<".docx">>
    IN  /\ Len(fn) >= Len(suffix)
        /\ SubSeq(fn, Len(fn) - Len(suffix) + 1, Len(fn)) = suffix

\* An alternative: the comparison is not strict.
expired_at_ttl(t_now, t) == t_now - t >= DOWNLOAD_TTL_SECONDS

\* now - t > DOWNLOAD_TTL_SECONDS
expired(t_now, t) == t_now - t > DOWNLOAD_TTL_SECONDS

\* base64.b64encode(f.read())
b64encode(bytes) == [b64 |-> bytes]

\* ------------------------------------------------------------ naming
\* \w of re with re.UNICODE, over the characters the model uses.
is_word(c) == c \in {"a", "b", "c", "v", "_"}

\* re.sub(r"\s+", "_", name)
RECURSIVE sub_whitespace(_)
sub_whitespace(s) ==
    IF s = <<>> THEN <<>>
    ELSE IF isspace(Head(s)) THEN <<"_">> \o sub_whitespace(lstrip(s))
    ELSE <<Head(s)>> \o sub_whitespace(Tail(s))

\* name[:n]
prefix(s, n) == SubSeq(s, 1, IF Len(s) < n THEN Len(s) ELSE n)

\* An alternative: the runs of whitespace are left in the name.
sanitize_no_collapse(name) ==
    prefix(SelectSeq(strip(name), LAMBDA c : is_word(c) \/ c \in {"-", ".", " "}),
           NameCap)

\* sanitize_filename, lines 98-102
sanitize_filename(name) ==
    LET stripped == strip(name)
        kept == SelectSeq(stripped, LAMBDA c : is_word(c) \/ c \in {"-", ".", " "})
    IN  prefix(sub_whitespace(kept), NameCap)

\* file_id[:12]
IdPrefixLen == 12

\* build_docx, line 214: f"{safe_title}_{file_id[:12]}.docx"
file_name_of(title, file_id) ==
    sanitize_filename(title) \o <<"_">> \o prefix(file_id, IdPrefixLen) \o <<".docx">>

\* ---------------------------------------------------------- rendering
\* text.replace("\r\n", "\n")
RECURSIVE replace_crlf(_)
replace_crlf(text) ==
    IF text = <<>> THEN <<>>
    ELSE IF Len(text) >= 2 /\ text[1] = "\r" /\ text[2] = "\n"
    THEN <<"\n">> \o replace_crlf(SubSeq(text, 3, Len(text)))
    ELSE <<Head(text)>> \o replace_crlf(Tail(text))

\* text.split("\n")
RECURSIVE split(_)
split(text) ==
    IF \E i \in 1..Len(text) : text[i] = "\n"
    THEN LET i == CHOOSE k \in 1..Len(text) :
                    text[k] = "\n" /\ \A j \in 1..(k - 1) : text[j] # "\n"
         IN  <<SubSeq(text, 1, i - 1)>> \o split(SubSeq(text, i + 1, Len(text)))
    ELSE <<text>>

\* line.startswith(pre)
startswith(line, pre) == Len(line) >= Len(pre) /\ SubSeq(line, 1, Len(pre)) = pre

\* The elements python-docx appends to the document.
heading(text, level) == [kind |-> "heading", level |-> level, text |-> text]
paragraph(text) == [kind |-> "paragraph", level |-> 0, text |-> text]
list_bullet(text) == [kind |-> "bullet", level |-> 0, text |-> text]

\* flush_bullets, lines 109-115
flush_bullets(st) ==
    [doc |-> st.doc \o [i \in 1..Len(st.bullet_buffer) |-> list_bullet(st.bullet_buffer[i])],
     bullet_buffer |-> <<>>]

\* One turn of the loop of lines 117-142.
markdown_line(st, raw) ==
    LET line == rstrip(raw)
    IN  IF strip(line) = <<>>
        THEN [flush_bullets(st) EXCEPT !.doc = Append(@, paragraph(<<>>))]
        ELSE IF startswith(line, <<"#", "#", " ">>)
        THEN [flush_bullets(st) EXCEPT
                 !.doc = Append(@, heading(SubSeq(line, 4, Len(line)), 2))]
        ELSE IF startswith(line, <<"#", " ">>)
        THEN [flush_bullets(st) EXCEPT
                 !.doc = Append(@, heading(SubSeq(line, 3, Len(line)), 1))]
        ELSE IF startswith(line, <<"-", " ">>)
        THEN [st EXCEPT !.bullet_buffer = Append(@, SubSeq(line, 3, Len(line)))]
        ELSE [flush_bullets(st) EXCEPT !.doc = Append(@, paragraph(line))]

RECURSIVE markdown_lines(_, _)
markdown_lines(st, lines) ==
    IF lines = <<>> THEN st
    ELSE markdown_lines(markdown_line(st, Head(lines)), Tail(lines))

\* An alternative: the buffer is not flushed after the last line.
add_text_without_last_flush(doc, text) ==
    markdown_lines([doc |-> doc, bullet_buffer |-> <<>>], split(replace_crlf(text)))

\* add_text_with_basic_markdown, lines 105-144: the document and the bullet
\* buffer when the function returns.
add_text_with_basic_markdown(doc, text) ==
    flush_bullets(markdown_lines([doc |-> doc, bullet_buffer |-> <<>>],
                                 split(replace_crlf(text))))

\* build_docx, lines 187-200: the title, the line of metadata and an empty
\* paragraph come before the body.
doc_head(title) == <<heading(title, 1), paragraph(<<"meta">>), paragraph(<<>>)>>

\* build_docx, lines 187-209, for a request without sections: the bytes
\* doc.save writes.
render(title, body) ==
    [kind |-> "docx", doc |-> add_text_with_basic_markdown(doc_head(title), body).doc]
\* What is left of them when doc.save fails after it has opened the file.
partial(title, body) == [kind |-> "partial", doc |-> <<>>]

VARIABLES
    now,            \* time.time()
    disk,           \* OUTPUT_DIR: file name -> [mtime, bytes]
    FILE_REGISTRY,  \* the dict, in insertion order: <<[id, path, created_at]>>
    pc,             \* per worker: position in the handler
    req,            \* per worker: the request being served
    loc,            \* per worker: the handler's local variables
    resp,           \* per worker: the response
    minted,         \* history: identifiers uuid4 has returned (or that exist)
    created,        \* history: [id, t] of every create answered with 200
    everLive,       \* history: every file name ever in OUTPUT_DIR -> its mtime
    served          \* history: the number of requests accepted so far

vars == <<now, disk, FILE_REGISTRY, pc, req, loc, resp, minted, created, everLive,
          served>>

\* ------------------------------------------------------------- the dict
RegHas(reg, id) == \E i \in 1..Len(reg) : reg[i].id = id
RegGet(reg, id) == reg[CHOOSE i \in 1..Len(reg) : reg[i].id = id]
\* FILE_REGISTRY[id] = {"path": path, "created_at": t}
RegSet(reg, id, path, t) ==
    LET e == [id |-> id, path |-> path, created_at |-> t]
    IN  IF RegHas(reg, id)
        THEN [i \in 1..Len(reg) |-> IF reg[i].id = id THEN e ELSE reg[i]]
        ELSE Append(reg, e)
\* An alternative: the entry is kept for as long as its file is on disk.
RegPopIfGone(reg, id) ==
    SelectSeq(reg, LAMBDA e : e.id # id \/ e.path \in DOMAIN disk)

\* FILE_REGISTRY.pop(id, None)
RegPop(reg, id) == SelectSeq(reg, LAMBDA e : e.id # id)

\* ------------------------------------------------------------- the disk
Exists(d, fn) == fn \in DOMAIN d
Remove(d, fn) == [n \in DOMAIN d \ {fn} |-> d[n]]
WriteFile(d, fn, t, bytes) ==
    [n \in DOMAIN d \cup {fn} |->
        IF n = fn THEN [mtime |-> t, bytes |-> bytes] ELSE d[n]]

\* An alternative: the registry is the only index.
resolve_registry_only(file_id) ==
    IF /\ RegHas(FILE_REGISTRY, file_id)
       /\ Exists(disk, RegGet(FILE_REGISTRY, file_id).path)
    THEN RegGet(FILE_REGISTRY, file_id).path
    ELSE <<>>

\* resolve_file_path: the path, or <<>> for None.
resolve_file_path(file_id) ==
    IF /\ RegHas(FILE_REGISTRY, file_id)
       /\ Exists(disk, RegGet(FILE_REGISTRY, file_id).path)
    THEN RegGet(FILE_REGISTRY, file_id).path
    ELSE IF Exists(disk, deterministic(file_id))
         THEN deterministic(file_id)
         ELSE <<>>

\* ------------------------------------------------------------- workers
NoReq ==
    [kind |-> "none", authorization |-> NoHeader, title |-> <<>>, body |-> <<>>,
     file_id |-> <<>>]
NoLoc ==
    [now |-> 0, to_delete |-> <<>>, names |-> {}, cur |-> <<>>,
     file_id |-> <<>>, file_name |-> <<>>, file_path |-> <<>>, failed |-> {}]
\* writes counts the calls of doc.save the request has made.
NoResp ==
    [status |-> 0, cause |-> "", file_id |-> <<>>, file_name |-> <<>>,
     data |-> NoBytes, writes |-> 0]

SweepPcs == {"sw_now", "sw_snap", "sw_reg", "sw_reg_rm", "sw_reg_pop",
             "sw_list", "sw_file", "sw_rm"}

\* Where cleanup_expired_files returns to.
AfterSweep(p) == IF req[p].kind = "create" THEN "c_build" ELSE "d_glob"

Init ==
    /\ now = 0
    /\ \E S \in {{}, LegacyNames} :
          disk = [n \in S |-> [mtime |-> 0, bytes |-> [kind |-> "legacy", doc |-> <<>>]]]
    /\ FILE_REGISTRY = <<>>
    /\ pc = [p \in Procs |-> "idle"]
    /\ req = [p \in Procs |-> NoReq]
    /\ loc = [p \in Procs |-> NoLoc]
    /\ resp = [p \in Procs |-> NoResp]
    /\ minted = {LegacyId}
    /\ created = {}
    /\ everLive = [n \in DOMAIN disk |-> disk[n].mtime]
    /\ served = 0

\* A step of worker p that leaves the shared state alone.
Local(p, newpc, newloc) ==
    /\ pc' = [pc EXCEPT ![p] = newpc]
    /\ loc' = [loc EXCEPT ![p] = newloc]
    /\ UNCHANGED <<now, disk, FILE_REGISTRY, req, resp, minted, created, everLive, served>>

\* Worker p answers with an HTTP error status: an HTTPException the handler
\* raises (401, 404) or an exception nothing catches (500). cause names the
\* statement that raised.
Fail(p, status, cause) ==
    /\ pc' = [pc EXCEPT ![p] = "done"]
    /\ loc' = [loc EXCEPT ![p] = [NoLoc EXCEPT !.now = loc[p].now]]
    /\ resp' = [resp EXCEPT ![p] = [resp[p] EXCEPT !.status = status,
                                                   !.cause = cause,
                                                   !.file_id = loc[p].file_id]]

\* ------------------------------------------------- requests arrive
StartCreate(p) ==
    /\ pc[p] = "idle"
    /\ Cardinality(minted) - 1
         + Cardinality({q \in Procs : /\ req[q].kind = "create"
                                      /\ pc[q] # "done"
                                      /\ loc[q].file_id = <<>>
                                      /\ verify_bearer_token(req[q].authorization) = 0})
         < MaxCreates
    /\ \E h \in Headers, t \in Titles, b \in Bodies :
          req' = [req EXCEPT ![p] = [kind |-> "create", authorization |-> h,
                                     title |-> t, body |-> b, file_id |-> <<>>]]
    /\ pc' = [pc EXCEPT ![p] = "c_auth"]
    /\ served < MaxRequests
    /\ served' = served + 1
    /\ UNCHANGED <<now, disk, FILE_REGISTRY, loc, resp, minted, created, everLive>>

StartDownload(p) ==
    /\ pc[p] = "idle"
    /\ \E f \in minted :
          req' = [req EXCEPT ![p] = [kind |-> "download", authorization |-> NoHeader,
                                     title |-> <<>>, body |-> <<>>, file_id |-> f]]
    /\ pc' = [pc EXCEPT ![p] = "sw_now"]
    /\ served < MaxRequests
    /\ served' = served + 1
    /\ UNCHANGED <<now, disk, FILE_REGISTRY, loc, resp, minted, created, everLive>>

\* An alternative: the token is not checked before the handler goes on.
CreateAuthUnchecked(p) ==
    /\ pc[p] = "c_auth"
    /\ pc' = [pc EXCEPT ![p] = "sw_now"]
    /\ UNCHANGED <<now, disk, FILE_REGISTRY, req, loc, resp, minted, created, everLive,
                   served>>

\* create_document, line 256: verify_bearer_token(authorization)
CreateAuth(p) ==
    /\ pc[p] = "c_auth"
    /\ IF verify_bearer_token(req[p].authorization) = 0
       THEN /\ pc' = [pc EXCEPT ![p] = "sw_now"]
            /\ req' = [req EXCEPT ![p].authorization.text = strip(req[p].authorization.text)]
            /\ UNCHANGED <<resp, loc>>
       ELSE /\ Fail(p, verify_bearer_token(req[p].authorization), "verify_bearer_token")
            /\ UNCHANGED req
    /\ UNCHANGED <<now, disk, FILE_REGISTRY, minted, created, everLive, served>>

\* ------------------------------------------- cleanup_expired_files
\* line 148: now = time.time()
SweepNow(p) ==
    /\ pc[p] = "sw_now"
    /\ Local(p, "sw_snap", [loc[p] EXCEPT !.now = now])

\* An alternative: every entry of the registry is taken, whatever its age.
to_delete_all(reg, t_now) == [i \in 1..Len(reg) |-> reg[i].id]

\* lines 151-155: the ids of list(FILE_REGISTRY.items()) whose created_at is
\* older than the TTL, in the dict's order.
to_delete_of(reg, t_now) ==
    LET old == SelectSeq(reg, LAMBDA e : expired(t_now, e.created_at))
    IN  [i \in 1..Len(old) |-> old[i].id]

SweepSnapshot(p) ==
    /\ pc[p] = "sw_snap"
    /\ Local(p, "sw_reg",
             [loc[p] EXCEPT !.to_delete = to_delete_of(FILE_REGISTRY, loc[p].now)])

\* lines 157-160: the next file_id of to_delete; its path is looked up and
\* tested with os.path.exists. A KeyError (the entry was popped by another
\* thread's sweep) is caught by the except of line 162.
SweepRegNext(p) ==
    /\ pc[p] = "sw_reg"
    /\ IF loc[p].to_delete = <<>>
       THEN Local(p, "sw_list", loc[p])
       ELSE LET id == Head(loc[p].to_delete)
            IN  IF /\ RegHas(FILE_REGISTRY, id)
                   /\ Exists(disk, RegGet(FILE_REGISTRY, id).path)
                THEN Local(p, "sw_reg_rm",
                           [loc[p] EXCEPT !.cur = RegGet(FILE_REGISTRY, id).path])
                ELSE Local(p, "sw_reg_pop", loc[p])

\* line 161: os.remove(path). It removes the file, or raises (the file is gone
\* by now, or an I/O error): the except of line 162 swallows that.
SweepRegRemove(p) ==
    /\ pc[p] = "sw_reg_rm"
    /\ pc' = [pc EXCEPT ![p] = "sw_reg_pop"]
    /\ \/ /\ Exists(disk, loc[p].cur)
          /\ disk' = Remove(disk, loc[p].cur)
          /\ loc' = [loc EXCEPT ![p].cur = <<>>]
       \/ /\ Exists(disk, loc[p].cur)
          /\ disk' = disk
          /\ loc' = [loc EXCEPT ![p].cur = <<>>,
                                ![p].failed = loc[p].failed \cup {loc[p].cur}]
       \/ /\ ~Exists(disk, loc[p].cur)
          /\ disk' = disk
          /\ loc' = [loc EXCEPT ![p].cur = <<>>]
    /\ UNCHANGED <<now, FILE_REGISTRY, req, resp, minted, created, everLive, served>>

\* line 164: FILE_REGISTRY.pop(file_id, None)
SweepRegPop(p) ==
    /\ pc[p] = "sw_reg_pop"
    /\ FILE_REGISTRY' = RegPop(FILE_REGISTRY, Head(loc[p].to_delete))
    /\ pc' = [pc EXCEPT ![p] = "sw_reg"]
    /\ loc' = [loc EXCEPT ![p].to_delete = Tail(loc[p].to_delete)]
    /\ UNCHANGED <<now, disk, req, resp, minted, created, everLive, served>>

\* An alternative listing: only the files the registry knows.
listdir_tracked(d) ==
    {n \in DOMAIN d : \E i \in 1..Len(FILE_REGISTRY) : FILE_REGISTRY[i].path = n}

\* line 168: os.listdir(OUTPUT_DIR)
listdir(d) == DOMAIN d

\* lines 168-170: the listing is taken; the names that do not end in ".docx"
\* are skipped.
SweepList(p) ==
    /\ pc[p] = "sw_list"
    /\ Local(p, "sw_file",
             [loc[p] EXCEPT !.names = {fn \in listdir(disk) : endswith_docx(fn)}])

\* An alternative: the first exception ends the loop.
rest_abort(names, fn) == {}

\* lines 176-177: the exception is swallowed inside the loop, which goes on
\* with the names that are left.
rest_after_error(names, fn) == names \ {fn}

\* lines 171-174: the next name of the listing (os.listdir gives them in no
\* particular order); os.path.getmtime raises when the file is gone, which the
\* except of line 176 swallows.
SweepFileNext(p) ==
    /\ pc[p] = "sw_file"
    /\ IF loc[p].names = {}
       THEN Local(p, AfterSweep(p), loc[p])
       ELSE \E fn \in loc[p].names :
              IF ~Exists(disk, fn)
              THEN Local(p, "sw_file",
                         [loc[p] EXCEPT !.names = rest_after_error(loc[p].names, fn)])
              ELSE IF expired(loc[p].now, disk[fn].mtime)
              THEN Local(p, "sw_rm", [loc[p] EXCEPT !.cur = fn])
              ELSE Local(p, "sw_file", [loc[p] EXCEPT !.names = loc[p].names \ {fn}])

\* line 175: os.remove(full), with the except of line 176.
SweepRemove(p) ==
    /\ pc[p] = "sw_rm"
    /\ pc' = [pc EXCEPT ![p] = "sw_file"]
    /\ \/ /\ Exists(disk, loc[p].cur)
          /\ disk' = Remove(disk, loc[p].cur)
          /\ loc' = [loc EXCEPT ![p].cur = <<>>,
                                ![p].names = loc[p].names \ {loc[p].cur}]
       \/ /\ Exists(disk, loc[p].cur)
          /\ disk' = disk
          /\ loc' = [loc EXCEPT ![p].cur = <<>>,
                                ![p].names = rest_after_error(loc[p].names, loc[p].cur),
                                ![p].failed = loc[p].failed \cup {loc[p].cur}]
       \/ /\ ~Exists(disk, loc[p].cur)
          /\ disk' = disk
          /\ loc' = [loc EXCEPT ![p].cur = <<>>,
                                ![p].names = rest_after_error(loc[p].names, loc[p].cur)]
    /\ UNCHANGED <<now, FILE_REGISTRY, req, resp, minted, created, everLive, served>>

\* ------------------------------------------------- create_document
\* line 212: uuid.uuid4().hex. The values a call can return: a version-4 UUID
\* has 122 random bits, and the model takes a repeated value to be impossible.
uuid4_hex(used) == Ids \ used

\* build_docx, lines 186-220: the document is rendered, the identifier minted
\* and doc.save(file_path) called with file_path = OUTPUT_DIR/<file_id>.docx.
\* doc.save writes the whole file, or raises before the file is opened
\* (directory missing, no permission), or raises after part of it is written
\* (disk full). Nothing catches the exception: the request ends with status 500.
build_docx(p) ==
    /\ pc[p] = "c_build"
    /\ \E id \in uuid4_hex(minted) :
          /\ minted' = minted \cup {id}
          /\ \/ /\ disk' = WriteFile(disk, file_path_of(id), now,
                                     render(req[p].title, req[p].body))
                /\ pc' = [pc EXCEPT ![p] = "c_reg"]
                /\ loc' = [loc EXCEPT ![p] =
                             [NoLoc EXCEPT !.now = loc[p].now,
                                           !.file_id = id,
                                           !.file_name = file_name_of(req[p].title, id),
                                           !.file_path = file_path_of(id)]]
                /\ resp' = [resp EXCEPT ![p].writes = 1]
             \/ /\ disk' = disk
                /\ pc' = [pc EXCEPT ![p] = "done"]
                /\ loc' = [loc EXCEPT ![p] = [NoLoc EXCEPT !.now = loc[p].now]]
                /\ resp' = [resp EXCEPT ![p] = [NoResp EXCEPT !.status = 500,
                                                              !.cause = "doc.save",
                                                              !.file_id = id,
                                                              !.writes = 1]]
             \/ /\ disk' = WriteFile(disk, file_path_of(id), now,
                                     partial(req[p].title, req[p].body))
                /\ pc' = [pc EXCEPT ![p] = "done"]
                /\ loc' = [loc EXCEPT ![p] = [NoLoc EXCEPT !.now = loc[p].now]]
                /\ resp' = [resp EXCEPT ![p] = [NoResp EXCEPT !.status = 500,
                                                              !.cause = "doc.save",
                                                              !.file_id = id,
                                                              !.writes = 1]]
    /\ everLive' = [n \in DOMAIN everLive \cup DOMAIN disk' |->
                        IF n \in DOMAIN everLive THEN everLive[n] ELSE disk'[n].mtime]
    /\ UNCHANGED <<now, FILE_REGISTRY, req, created, served>>

\* line 261: FILE_REGISTRY[file_id] = {"path": file_path, "created_at": time.time()}
CreateRegister(p) ==
    /\ pc[p] = "c_reg"
    /\ FILE_REGISTRY' = RegSet(FILE_REGISTRY, loc[p].file_id, loc[p].file_path, now)
    /\ pc' = [pc EXCEPT ![p] = "c_read"]
    /\ UNCHANGED <<now, disk, req, loc, resp, minted, created, everLive, served>>

\* lines 270-280: the file is read back for file_base64 and the response is
\* built. open() raises when the file is gone: status 500.
CreateReadBack(p) ==
    /\ pc[p] = "c_read"
    /\ IF Exists(disk, loc[p].file_path)
       THEN /\ resp' = [resp EXCEPT ![p] =
                          [status |-> 200, cause |-> "", file_id |-> loc[p].file_id,
                           file_name |-> loc[p].file_name,
                           data |-> b64encode(disk[loc[p].file_path].bytes),
                           writes |-> resp[p].writes]]
            /\ pc' = [pc EXCEPT ![p] = "done"]
            /\ loc' = [loc EXCEPT ![p] = [NoLoc EXCEPT !.now = loc[p].now]]
            /\ created' = created \cup
                  {[id |-> loc[p].file_id, t |-> disk[loc[p].file_path].mtime]}
       ELSE /\ Fail(p, 500, "open")
            /\ UNCHANGED created
    /\ UNCHANGED <<now, disk, FILE_REGISTRY, req, minted, everLive, served>>

\* ------------------------------------------------ download_document
\* lines 290-291: glob(OUTPUT_DIR/*_<file_id>.docx)
glob(d, file_id) == {fn \in DOMAIN d : glob_match(fn, file_id)}

\* lines 291-296: no match is a 404; else matches[0] (glob returns the matches
\* in the order of os.listdir, which is not specified).
DownloadGlob(p) ==
    /\ pc[p] = "d_glob"
    /\ IF glob(disk, req[p].file_id) = {}
       THEN Fail(p, 404, "glob")
       ELSE /\ \E m \in glob(disk, req[p].file_id) :
                 loc' = [loc EXCEPT ![p] = [NoLoc EXCEPT !.now = loc[p].now,
                                                        !.file_path = m]]
            /\ pc' = [pc EXCEPT ![p] = "d_exists"]
            /\ UNCHANGED resp
    /\ UNCHANGED <<now, disk, FILE_REGISTRY, req, minted, created, everLive, served>>

\* lines 297-298: os.path.exists(file_path), else 404.
DownloadExists(p) ==
    /\ pc[p] = "d_exists"
    /\ IF Exists(disk, loc[p].file_path)
       THEN /\ pc' = [pc EXCEPT ![p] = "d_read"]
            /\ UNCHANGED <<resp, loc>>
       ELSE Fail(p, 404, "os.path.exists")
    /\ UNCHANGED <<now, disk, FILE_REGISTRY, req, minted, created, everLive, served>>

\* lines 300-304: the FileResponse is returned and the framework sends it: it
\* stats and reads the file. If the file is gone it raises RuntimeError, which
\* no handler catches: status 500.
DownloadSend(p) ==
    /\ pc[p] = "d_read"
    /\ IF Exists(disk, loc[p].file_path)
       THEN /\ resp' = [resp EXCEPT ![p] =
                          [status |-> 200, cause |-> "", file_id |-> req[p].file_id,
                           file_name |-> loc[p].file_path,
                           data |-> disk[loc[p].file_path].bytes,
                           writes |-> 0]]
            /\ pc' = [pc EXCEPT ![p] = "done"]
            /\ loc' = [loc EXCEPT ![p] = [NoLoc EXCEPT !.now = loc[p].now]]
       ELSE Fail(p, 500, "FileResponse")
    /\ UNCHANGED <<now, disk, FILE_REGISTRY, req, minted, created, everLive, served>>

\* ------------------------------------------------------ environment
\* The response is sent; the worker takes the next request.
Respond(p) ==
    /\ pc[p] = "done"
    /\ pc' = [pc EXCEPT ![p] = "idle"]
    /\ req' = [req EXCEPT ![p] = NoReq]
    /\ loc' = [loc EXCEPT ![p] = NoLoc]
    /\ resp' = [resp EXCEPT ![p] = NoResp]
    /\ UNCHANGED <<now, disk, FILE_REGISTRY, minted, created, everLive, served>>

\* Time passes.
Tick ==
    /\ now < MaxTime
    /\ now' = now + 1
    /\ UNCHANGED <<disk, FILE_REGISTRY, pc, req, loc, resp, minted, created, everLive, served>>

\* The process restarts: the requests in flight and the registry are lost,
\* OUTPUT_DIR is not.
Restart ==
    /\ FILE_REGISTRY' = <<>>
    /\ pc' = [p \in Procs |-> "idle"]
    /\ req' = [p \in Procs |-> NoReq]
    /\ loc' = [p \in Procs |-> NoLoc]
    /\ resp' = [p \in Procs |-> NoResp]
    /\ UNCHANGED <<now, disk, minted, created, everLive, served>>

Step(p) ==
    \/ StartCreate(p)
    \/ StartDownload(p)
    \/ CreateAuth(p)
    \/ SweepNow(p)
    \/ SweepSnapshot(p)
    \/ SweepRegNext(p)
    \/ SweepRegRemove(p)
    \/ SweepRegPop(p)
    \/ SweepList(p)
    \/ SweepFileNext(p)
    \/ SweepRemove(p)
    \/ build_docx(p)
    \/ CreateRegister(p)
    \/ CreateReadBack(p)
    \/ DownloadGlob(p)
    \/ DownloadExists(p)
    \/ DownloadSend(p)
    \/ Respond(p)

Next == (\E p \in Procs : Step(p)) \/ Tick \/ Restart

Spec == Init /\ [][Next]_vars

\* ------------------------------------------------ sequential runs
\* The server left alone with one client: worker w1 serves one download after
\* the other, the clock stands still, no other request is in flight. The run
\* starts from any content of OUTPUT_DIR and of FILE_REGISTRY that earlier
\* requests and restarts can have left: files of created identifiers and older
\* files, each with an mtime up to now; registry entries only for created
\* identifiers, with the path build_docx gave them and a created_at that is
\* not earlier than the file's mtime (line 261 runs after line 219).
SeqNames == LegacyNames \cup {file_path_of(id) : id \in Ids \ {LegacyId}}

SeqDisks(t_now) ==
    UNION { [S -> [mtime : 0..t_now,
                   bytes : {render(t, b) : t \in Titles, b \in Bodies}]] :
              S \in SUBSET SeqNames }

SeqEntries(d, t_now) ==
    { [id |-> id, path |-> file_path_of(id), created_at |-> t] :
        id \in Ids \ {LegacyId},
        t \in 0..t_now }
    \ { e \in [id : Ids, path : SeqNames, created_at : 0..t_now] :
          Exists(d, e.path) /\ e.created_at < d[e.path].mtime }

SeqRegistries(d, t_now) ==
    { r \in UNION { [1..n -> SeqEntries(d, t_now)] : n \in 0..Cardinality(Ids) - 1 } :
        \A i, j \in 1..Len(r) : i # j => r[i].id # r[j].id }

InitSeq ==
    /\ now \in 0..MaxTime
    /\ disk \in SeqDisks(now)
    /\ FILE_REGISTRY \in SeqRegistries(disk, now)
    /\ pc = [p \in Procs |-> "idle"]
    /\ req = [p \in Procs |-> NoReq]
    /\ loc = [p \in Procs |-> NoLoc]
    /\ resp = [p \in Procs |-> NoResp]
    /\ minted = Ids
    /\ created = {}
    /\ everLive = [n \in DOMAIN disk |-> disk[n].mtime]
    /\ served = 0

StepSeq(p) ==
    \/ StartDownload(p)
    \/ SweepNow(p)
    \/ SweepSnapshot(p)
    \/ SweepRegNext(p)
    \/ SweepRegRemove(p)
    \/ SweepRegPop(p)
    \/ SweepList(p)
    \/ SweepFileNext(p)
    \/ SweepRemove(p)
    \/ DownloadGlob(p)
    \/ DownloadExists(p)
    \/ DownloadSend(p)
    \/ Respond(p)

NextSeq == \E p \in {"w1"} : StepSeq(p)

SpecSeq == InitSeq /\ [][NextSeq]_vars

\* ------------------------------------------------ documents
\* One create request that has passed the token check and the sweep, over an
\* empty OUTPUT_DIR: build_docx and the rest of create_document run on it.
\* The request carries any title of up to MaxTitle characters, or any
\* body_markdown of up to MaxLines lines.
TitleChars == {"a", "_", "-", ".", " ", "\t", "/", "\\", ":", "?"}
DocTitles == UNION { [1..n -> TitleChars] : n \in 0..MaxTitle }

MdLines ==
    { <<>>, <<" ">>, <<"a">>, <<"a", " ">>, <<" ", "-", " ", "a">>,
      <<"-", " ", "a">>, <<"-", " ", "b">>, <<"-", " ">>, <<"-", "a">>,
      <<"#", " ", "a">>, <<"#", "#", " ", "a">>, <<"#", "a">>, <<"#", " ">> }

RECURSIVE join(_, _)
join(lines, sep) ==
    IF Len(lines) = 1 THEN Head(lines)
    ELSE Head(lines) \o sep \o join(Tail(lines), sep)

DocBodies ==
    { join(ls, sep) : ls \in UNION { [1..n -> MdLines] : n \in 1..MaxLines },
                      sep \in {<<"\n">>, <<"\r", "\n">>} }

InitDoc ==
    /\ now = 0
    /\ disk = [n \in {} |-> NoBytes]
    /\ FILE_REGISTRY = <<>>
    /\ pc = [p \in Procs |-> IF p = "w1" THEN "c_build" ELSE "idle"]
    /\ \E r \in (DocTitles \X Bodies) \cup (Titles \X DocBodies) :
          req = [p \in Procs |->
                   IF p = "w1"
                   THEN [kind |-> "create",
                         authorization |->
                            [present |-> TRUE,
                             text |-> <<"Bearer", " ">> \o API_BEARER_TOKEN],
                         title |-> r[1], body |-> r[2], file_id |-> <<>>]
                   ELSE NoReq]
    /\ loc = [p \in Procs |-> NoLoc]
    /\ resp = [p \in Procs |-> NoResp]
    /\ minted = {LegacyId}
    /\ created = {}
    /\ everLive = [n \in {} |-> 0]
    /\ served = 1

StepDoc(p) ==
    \/ build_docx(p)
    \/ CreateRegister(p)
    \/ CreateReadBack(p)
    \/ Respond(p)

NextDoc == \E p \in {"w1"} : StepDoc(p)

SpecDoc == InitDoc /\ [][NextDoc]_vars

\* ====================================================================
\* Properties
\* ====================================================================
DownloadDone(p) == pc[p] = "done" /\ req[p].kind = "download"
CreateDone(p) == pc[p] = "done" /\ req[p].kind = "create"
\* Worker p has just returned from cleanup_expired_files.
SweepReturned(p) == pc[p] \in {"c_build", "d_glob"}
\* Worker p is at an os.remove of the sweep, about to remove n.
Removing(p, n) == pc[p] \in {"sw_reg_rm", "sw_rm"} /\ loc[p].cur = n

\* C1 (round trip). A download of an identifier that a successful create
\* returned, whose file is still in OUTPUT_DIR and younger than the TTL,
\* answers 200 with exactly the bytes the create persisted.
C1_RoundTrip ==
    \A p \in Procs : \A c \in created :
        ( /\ DownloadDone(p)
          /\ req[p].file_id = c.id
          /\ Exists(disk, c.id \o <<".docx">>)
          /\ loc[p].now - c.t <= DOWNLOAD_TTL_SECONDS )
        => /\ resp[p].status = 200
           /\ resp[p].data = disk[c.id \o <<".docx">>].bytes

\* C2 (restart tolerance). Whatever the registry holds, resolve_file_path(id)
\* returns a path exactly when OUTPUT_DIR/<id>.docx exists, and then it
\* returns that path; in particular after a restart has emptied the registry.
C2_ResolveIffOnDisk ==
    \A id \in Ids :
        /\ (resolve_file_path(id) # <<>>) <=> Exists(disk, id \o <<".docx">>)
        /\ Exists(disk, id \o <<".docx">>) => resolve_file_path(id) = id \o <<".docx">>

\* The registry is empty (restart) while a created artifact that has not
\* expired is on disk and resolves.
C2_Witness ==
    /\ FILE_REGISTRY = <<>>
    /\ \E c \in created :
          /\ Exists(disk, c.id \o <<".docx">>)
          /\ now - c.t <= DOWNLOAD_TTL_SECONDS
          /\ resolve_file_path(c.id) = c.id \o <<".docx">>

\* C3 (expiry boundary). For an artifact created at T, a download issued at
\* T + TTL - 1 answers 200 and a download issued at T + TTL + 1 answers 404.
C3_ExpiryBoundary ==
    \A p \in Procs : \A c \in created :
        (DownloadDone(p) /\ req[p].file_id = c.id)
        => /\ loc[p].now = c.t + DOWNLOAD_TTL_SECONDS - 1 => resp[p].status = 200
           /\ loc[p].now = c.t + DOWNLOAD_TTL_SECONDS + 1 => resp[p].status = 404

\* C4 (resolve-vs-evict race). A download whose file disappears after the
\* lookup found it ends as 404: no download ends with an internal error.
C4_MissingAtReadIs404 ==
    \A p \in Procs : DownloadDone(p) => resp[p].status \in {200, 404}

\* C5 (artifact lifecycle). In every step: a file that stays keeps its mtime
\* and bytes; a file appears only in the build step of the create that mints
\* its identifier, and never under a name that was live before; a file
\* disappears only in an os.remove of a sweep whose clock reading exceeds the
\* file's mtime by more than the TTL.
C5_Step ==
    \A n \in DOMAIN disk \cup DOMAIN disk' :
        /\ (n \in DOMAIN disk /\ n \in DOMAIN disk') => disk'[n] = disk[n]
        /\ (n \notin DOMAIN disk /\ n \in DOMAIN disk')
              => /\ n \notin DOMAIN everLive
                 /\ \E p \in Procs : \E id \in minted' \ minted :
                       /\ pc[p] = "c_build"
                       /\ pc'[p] \in {"c_reg", "done"}
                       /\ n = id \o <<".docx">>
        /\ (n \in DOMAIN disk /\ n \notin DOMAIN disk')
              => \E p \in Procs :
                    /\ Removing(p, n)
                    /\ loc[p].now - disk[n].mtime > DOWNLOAD_TTL_SECONDS
                    /\ now - disk[n].mtime > DOWNLOAD_TTL_SECONDS

C5_Lifecycle == [][C5_Step]_vars

\* An artifact a create persisted has been removed again.
C5_Witness ==
    \E c \in created :
        /\ ~Exists(disk, c.id \o <<".docx">>)
        /\ c.id \o <<".docx">> \in DOMAIN everLive

\* C6 (all-or-nothing write). After a create that failed in doc.save, no file
\* for the minted identifier is on disk or resolvable, and the registry has no
\* entry for it.
C6_AllOrNothing ==
    \A p \in Procs :
        (CreateDone(p) /\ resp[p].cause = "doc.save")
        => /\ ~Exists(disk, resp[p].file_id \o <<".docx">>)
           /\ resolve_file_path(resp[p].file_id) = <<>>
           /\ glob(disk, resp[p].file_id) = {}
           /\ ~RegHas(FILE_REGISTRY, resp[p].file_id)

\* C7 (authentication failure). A create whose header is not accepted never
\* gets past the token check, ends with 401, and the step that answers leaves
\* OUTPUT_DIR and FILE_REGISTRY as they were.
C7_Rejected(p) ==
    req[p].kind = "create" /\ verify_bearer_token(req[p].authorization) # 0

C7_Step ==
    \A p \in Procs :
        /\ C7_Rejected(p)' =>
              /\ pc'[p] \in {"c_auth", "done"}
              /\ pc'[p] = "done" => resp'[p].status = 401
        /\ (C7_Rejected(p) /\ pc[p] = "c_auth" /\ pc'[p] = "done")
              => /\ disk' = disk
                 /\ FILE_REGISTRY' = FILE_REGISTRY

C8_SweepContainment ==
    \A p \in Procs :
        /\ pc[p] \in SweepPcs \cup {"c_build", "d_glob"} => resp[p] = NoResp
        /\ SweepReturned(p) =>
              \A n \in DOMAIN disk :
                 ( /\ endswith_docx(n)
                   /\ loc[p].now - disk[n].mtime > DOWNLOAD_TTL_SECONDS )
                 => n \in loc[p].failed

\* A sweep has returned after an os.remove failed, and an expired file of the
\* same directory is gone.
C8_Witness ==
    \E p \in Procs :
        /\ SweepReturned(p)
        /\ loc[p].failed # {}
        /\ \E n \in DOMAIN everLive \ DOMAIN disk :
              endswith_docx(n) /\ n \notin loc[p].failed

\* C9 (sweep coverage). When the sweep has returned without a failed
\* os.remove, no .docx file older than the TTL at the sweep's clock reading is
\* on disk, whether the registry knows it or not; and every file that is
\* gone from OUTPUT_DIR was a .docx file and is older than the TTL.
C9_SweepCoverage ==
    /\ \A p \in Procs :
          (SweepReturned(p) /\ loc[p].failed = {})
          => \A n \in DOMAIN disk :
                endswith_docx(n)
                => loc[p].now - disk[n].mtime <= DOWNLOAD_TTL_SECONDS
    /\ \A n \in DOMAIN everLive \ DOMAIN disk :
          /\ endswith_docx(n)
          /\ now - everLive[n] > DOWNLOAD_TTL_SECONDS

\* A sweep without failure has returned; a .docx file that no registry entry
\* ever named is gone, the file that is no .docx is still there.
C9_Witness ==
    \E p \in Procs :
        /\ SweepReturned(p)
        /\ loc[p].failed = {}
        /\ \E n \in LegacyNames \ DOMAIN disk : endswith_docx(n)
        /\ \E n \in LegacyNames \cap DOMAIN disk : ~endswith_docx(n)

\* C10 (creates never collide). The identifiers held by creates in flight and
\* by the registry are pairwise distinct; the build step of a create leaves
\* every file already on disk as it was and writes no name that was ever
\* live; registering never overwrites an entry.
C10_Step ==
    /\ \A p, q \in Procs :
          (p # q /\ loc'[p].file_id # <<>>) => loc'[p].file_id # loc'[q].file_id
    /\ \A i, j \in 1..Len(FILE_REGISTRY') :
          i # j => /\ FILE_REGISTRY'[i].id # FILE_REGISTRY'[j].id
                   /\ FILE_REGISTRY'[i].path # FILE_REGISTRY'[j].path
    /\ \A p \in Procs :
          /\ (pc[p] = "c_build" /\ pc'[p] \in {"c_reg", "done"})
                => /\ \A n \in DOMAIN disk : n \in DOMAIN disk' /\ disk'[n] = disk[n]
                   /\ \A n \in DOMAIN disk' \ DOMAIN disk : n \notin DOMAIN everLive
          /\ (pc[p] = "c_reg" /\ pc'[p] = "c_read")
                => /\ ~RegHas(FILE_REGISTRY, loc[p].file_id)
                   /\ \A i \in 1..Len(FILE_REGISTRY) :
                         FILE_REGISTRY[i].path # loc[p].file_path

C10_NoCollision == [][C10_Step]_vars

\* Two creates are in flight at once, each with its file written.
C10_Witness ==
    \E p, q \in Procs :
        /\ p # q
        /\ pc[p] \in {"c_reg", "c_read"}
        /\ pc[q] \in {"c_reg", "c_read"}
        /\ Exists(disk, loc[p].file_path)
        /\ Exists(disk, loc[q].file_path)

\* No .docx file in OUTPUT_DIR is older than the TTL.
NoExpiredOnDisk ==
    \A n \in DOMAIN disk :
        endswith_docx(n) => now - disk[n].mtime <= DOWNLOAD_TTL_SECONDS

\* C11 as stated (idempotent eviction). No step of cleanup_expired_files ends
\* the request with an error, absent files included, and a run of
\* cleanup_expired_files that follows another one at the same clock value
\* changes neither OUTPUT_DIR nor FILE_REGISTRY.
C11_SecondRunChangesNothing ==
    [][\A p \in Procs :
          pc[p] \in SweepPcs
          => /\ resp'[p] = NoResp
             /\ served >= 2 => (disk' = disk /\ FILE_REGISTRY' = FILE_REGISTRY)]_vars

\* C11 as amended. No step of cleanup_expired_files ends the request with an
\* error; a run that follows another one at the same clock value leaves
\* FILE_REGISTRY as it is, and leaves OUTPUT_DIR as it is unless a .docx file
\* older than the TTL survived the first run (its os.remove failed).
C11_Step ==
    \A p \in Procs :
        pc[p] \in SweepPcs
        => /\ resp'[p] = NoResp
           /\ served >= 2 => FILE_REGISTRY' = FILE_REGISTRY
           /\ (served >= 2 /\ NoExpiredOnDisk) => disk' = disk

C11_IdempotentEviction == [][C11_Step]_vars

\* A second run has returned, no expired file is left, and some file that
\* was in OUTPUT_DIR at the start is gone.
C11_Witness ==
    \E p \in Procs :
        /\ served >= 2
        /\ SweepReturned(p)
        /\ NoExpiredOnDisk
        /\ \E n \in DOMAIN everLive : ~Exists(disk, n)

\* The code point of the first character of a token, and the order Python
\* gives two strings.
Ord(c) ==
    CASE c = ".docx" -> 46
      [] c = ".txt" -> 46
      [] c = "_" -> 95
      [] c = "a" -> 97
      [] c = "b" -> 98
      [] c = "c" -> 99
      [] c = "n" -> 110
      [] c = "x" -> 120
      [] c = "y" -> 121
      [] OTHER -> 0

RECURSIVE LexLess(_, _)
LexLess(s, t) ==
    IF t = <<>> THEN FALSE
    ELSE IF s = <<>> THEN TRUE
    ELSE IF Head(s) # Head(t) THEN Ord(Head(s)) < Ord(Head(t))
    ELSE LexLess(Tail(s), Tail(t))

\* C12 (ambiguous match). When several files match the lookup of a download,
\* the file the handler goes on with is the lexicographically first of them:
\* no match still on disk sorts before it.
C12_AmbiguousMatch ==
    \A p \in Procs :
        pc[p] = "d_exists"
        => \A m \in glob(disk, req[p].file_id) : ~LexLess(m, loc[p].file_path)

\* C13 (write retry). A create fails in doc.save only after the write was
\* attempted a second time: a request that ends with the error of doc.save has
\* called doc.save twice.
C13_WriteRetry ==
    \A p \in Procs :
        (CreateDone(p) /\ resp[p].cause = "doc.save") => resp[p].writes = 2

\* The part of a file name that comes from the title: what precedes
\* "_<file_id[:12]>.docx".
TitlePart(fn, id) == SubSeq(fn, 1, Len(fn) - Len(prefix(id, IdPrefixLen)) - 2)

\* C14 (sanitization). The file_name a create builds, and returns, has a title
\* part of at most NameCap characters, all of them word characters, "-" or
\* "."; no character of the whole name is a path separator or whitespace.
C14_Sanitized ==
    \A p \in Procs :
        LET fn == IF pc[p] = "done" THEN resp[p].file_name ELSE loc[p].file_name
            id == IF pc[p] = "done" THEN resp[p].file_id ELSE loc[p].file_id
        IN  (req[p].kind = "create" /\ fn # <<>>)
            => /\ Len(TitlePart(fn, id)) <= NameCap
               /\ \A i \in 1..Len(TitlePart(fn, id)) :
                     \/ fn[i] \in {"a", "b", "c", "v", "_"}
                     \/ fn[i] \in {"-", "."}
               /\ \A i \in 1..Len(fn) :
                     fn[i] \notin {"/", "\\", ":", "?", " ", "\t", "\n", "\r"}

\* A create has built the name for a title that is longer than the cap, has
\* whitespace inside and begins with a path separator.
C14_Witness ==
    \E p \in Procs :
        /\ pc[p] = "c_reg"
        /\ Len(req[p].title) > NameCap
        /\ Head(req[p].title) = "/"
        /\ \E i \in 2..(Len(req[p].title) - 1) : req[p].title[i] = " "
        /\ Len(TitlePart(loc[p].file_name, loc[p].file_id)) = NameCap

\* C15 (empty-title fallback). The title part of the file_name a create
\* builds is never empty: a title that sanitizes to the empty string gets a
\* default name.
C15_EmptyTitleFallback ==
    \A p \in Procs :
        (req[p].kind = "create" /\ loc[p].file_name # <<>>)
        => TitlePart(loc[p].file_name, loc[p].file_id) # <<>>

\* The files of the starting content of OUTPUT_DIR that a sweep reading the
\* clock at t keeps: all but the .docx files whose mtime is older than the TTL.
Kept(t) ==
    {n \in DOMAIN everLive :
        ~(endswith_docx(n) /\ t - everLive[n] > DOWNLOAD_TTL_SECONDS)}

\* C16 (the registry is not the source of truth). Whatever FILE_REGISTRY held
\* when the run began, a download that runs alone leaves on disk the files
\* that OUTPUT_DIR's content and the clock determine (but for those whose
\* os.remove failed), answers 404 exactly when no file on disk matches its
\* lookup, and else serves a file that matches it.
C16_RegistryNotConsulted ==
    \A p \in Procs :
        /\ pc[p] = "d_glob"
           => /\ Kept(loc[p].now) \subseteq DOMAIN disk
              /\ (DOMAIN disk \ Kept(loc[p].now)) \subseteq loc[p].failed
        /\ DownloadDone(p)
           => /\ resp[p].status \in {200, 404}
              /\ resp[p].status = 404 <=> glob(disk, req[p].file_id) = {}
              /\ resp[p].status = 200
                 => /\ resp[p].file_name \in glob(disk, req[p].file_id)
                    /\ resp[p].data = disk[resp[p].file_name].bytes

\* A download has served a file while the registry holds an entry and a file
\* that the registry named has been swept.
C16_Witness ==
    \E p \in Procs :
        /\ DownloadDone(p)
        /\ resp[p].status = 200
        /\ FILE_REGISTRY # <<>>
        /\ \E id \in Ids :
              /\ id \o <<".docx">> \in DOMAIN everLive
              /\ ~Exists(disk, id \o <<".docx">>)

\* C17 as stated (sweep ordering). The read-back of a create always finds the
\* file the create persisted: no create ends with the error of open().
C17_ReadBackAlwaysFinds ==
    \A p \in Procs : CreateDone(p) => resp[p].cause # "open"

\* C17 as amended. A request that is still in cleanup_expired_files has
\* written and looked up nothing; when it is about to write or to look up,
\* its sweep has nothing left to do; and the file a create persisted is on
\* disk for as long as its age is at most the TTL, so a read-back that runs
\* within the TTL finds it.
C17_SweepOrdering ==
    \A p \in Procs :
        /\ pc[p] \in SweepPcs \cup {"c_auth"}
           => /\ loc[p].file_id = <<>>
              /\ loc[p].file_path = <<>>
              /\ resp[p] = NoResp
        /\ pc[p] \in {"c_build", "d_glob"}
           => /\ loc[p].to_delete = <<>>
              /\ loc[p].names = {}
              /\ loc[p].cur = <<>>
        /\ ( /\ pc[p] \in {"c_reg", "c_read"}
             /\ now - everLive[loc[p].file_path] <= DOWNLOAD_TTL_SECONDS )
           => Exists(disk, loc[p].file_path)

\* A create is about to read its file back while another request is at an
\* os.remove of its sweep, and the clock has moved on since the file was
\* written.
C17_Witness ==
    \E p, q \in Procs :
        /\ pc[p] = "c_read"
        /\ pc[q] \in {"sw_reg_rm", "sw_rm"}
        /\ now > everLive[loc[p].file_path]
        /\ Exists(disk, loc[p].file_path)

\* The lines of the body of p's request, and the elements that follow the
\* head of the document p's create has saved.
BodyLines(p) == split(replace_crlf(req[p].body))
BodyElements(p) ==
    LET d == disk[loc[p].file_path].bytes.doc
    IN  SubSeq(d, Len(doc_head(req[p].title)) + 1, Len(d))
Saved(p) ==
    /\ pc[p] \in {"c_reg", "c_read"}
    /\ Exists(disk, loc[p].file_path)
    /\ disk[loc[p].file_path].bytes.kind = "docx"

\* C18 as stated (bullet runs). The saved document has one element per line
\* of the body, in line order, and the element of every line that begins with
\* "- " is a bullet item.
C18_EveryDashLineIsBullet ==
    \A p \in Procs :
        Saved(p)
        => /\ Len(BodyElements(p)) = Len(BodyLines(p))
           /\ \A i \in 1..Len(BodyLines(p)) :
                 startswith(BodyLines(p)[i], <<"-", " ">>)
                 => BodyElements(p)[i].kind = "bullet"

\* The element a line stands for, by the line without its trailing whitespace.
LineElement(raw) ==
    LET line == rstrip(raw)
    IN  IF line = <<>> THEN paragraph(<<>>)
        ELSE IF startswith(line, <<"#", "#", " ">>)
        THEN heading(SubSeq(line, 4, Len(line)), 2)
        ELSE IF startswith(line, <<"#", " ">>)
        THEN heading(SubSeq(line, 3, Len(line)), 1)
        ELSE IF startswith(line, <<"-", " ">>)
        THEN list_bullet(SubSeq(line, 3, Len(line)))
        ELSE paragraph(line)

\* C18 as amended. The saved document has exactly one element per line of the
\* body, in line order: a bullet item for every line that begins with "- "
\* once its trailing whitespace is stripped, so that the items of a run come
\* together, in order, right before the element of the line that ends the
\* run; and the bullet buffer is empty when the function returns.
C18_BulletRuns ==
    \A p \in Procs :
        Saved(p)
        => /\ BodyElements(p) =
                 [i \in 1..Len(BodyLines(p)) |-> LineElement(BodyLines(p)[i])]
           /\ add_text_with_basic_markdown(doc_head(req[p].title),
                                           req[p].body).bullet_buffer = <<>>

\* A document is saved whose body has a run of two bullet lines, a heading
\* that ends it, and a bullet line at the end of the text.
C18_Witness ==
    \E p \in Procs :
        /\ Saved(p)
        /\ Len(BodyLines(p)) = 3
        /\ BodyElements(p)[1].kind = "bullet"
        /\ BodyElements(p)[2].kind = "heading"
        /\ BodyElements(p)[3].kind = "bullet"

\* C19 (registry bound). When cleanup_expired_files has returned, no entry of
\* FILE_REGISTRY is older than the TTL at the sweep's clock reading, whether
\* or not the os.remove of its file failed.
C19_RegistryBound ==
    \A p \in Procs :
        SweepReturned(p)
        => \A i \in 1..Len(FILE_REGISTRY) :
              loc[p].now - FILE_REGISTRY[i].created_at <= DOWNLOAD_TTL_SECONDS

\* A sweep has returned and the registry still holds an entry, younger than
\* its file, whose file the mtime pass has removed: the entry does not imply
\* that the file exists.
C19_Witness ==
    \E p \in Procs :
        /\ SweepReturned(p)
        /\ \E i \in 1..Len(FILE_REGISTRY) :
              /\ ~Exists(disk, FILE_REGISTRY[i].path)
              /\ FILE_REGISTRY[i].created_at > everLive[FILE_REGISTRY[i].path]

====
